---- MODULE Spec2Model ----
(***************************************************************************)
(* Model of lbsql.Balancer (src/lbsql.go): a registry of named             *)
(* driver.Connectors guarded by one mutex, and Connect, which retries a    *)
(* randomly selected connector under backoff.Retry with an exponential     *)
(* backoff bound to the caller's context.                                  *)
(*                                                                         *)
(* backoff.Retry, backoff.WithContext and backoff.NewExponentialBackOff    *)
(* are the ones of github.com/cenkalti/backoff as imported by lbsql.go     *)
(* (the unversioned import path, i.e. the v2 line of the library):         *)
(*                                                                         *)
(*   b.Reset()                                                             *)
(*   for {                                                                 *)
(*     if err = operation(); err == nil { return nil }                     *)
(*     if err is a PermanentError { return permanent.Err }                 *)
(*     if next = cb.NextBackOff(); next == Stop { return err }             *)
(*     timer(next)                                                         *)
(*     select { case <-ctx.Done(): return err                              *)
(*              case <-t.C: }                                              *)
(*   }                                                                     *)
(*                                                                         *)
(* Time is counted in ticks.  Every call keeps the time elapsed since its  *)
(* backoff was Reset (saturating just above MaxElapsedTime, the only       *)
(* value it is compared with) and the ticks left on its retry timer.       *)
(* The contexts passed to Connect carry no deadline: they are done when    *)
(* their caller cancels them.                                              *)
(*                                                                         *)
(* Spec      one Connect or Open call, concurrent with a goroutine that    *)
(*           calls Add, Remove, ConnectorNames, Driver and OpenConnector;  *)
(* SpecStatic  two concurrent Connect calls on a registry that is left     *)
(*           as some Adds made it;                                         *)
(* SpecSole  SpecStatic with errConnector as the only entry, and the       *)
(*           scheduler's fairness;                                         *)
(* SpecBlocked  two Connect calls and the registry's goroutine, where      *)
(*           every connector added blocks forever in its Connect, and      *)
(*           the mutex's fairness.                                         *)
(***************************************************************************)
EXTENDS Integers, Sequences, FiniteSets, TLC

\* ---------------------------------------------------------------- bounds
\* The exponential backoff's parameters, scaled to ticks.
InitialInterval == 2
MaxInterval == 3
MaxElapsedTime == 3

\* ------------------------------------------------------------- universe
\* The Connect calls, and the one of them made while the registry changes.
Calls == {"c1", "c2"}
Callers == {"c1"}
Names == {"foo", "bar"}

\* The names Open and OpenConnector are called with: registered or not.
OpenNames == Names \cup {""}

Nil == "nil"
ErrNoConnectors == "lbsql: no available connectors"
Canceled == "context canceled"
Stop == -1

\* The contexts a Connect call runs under: the one its caller passed, which
\* the caller may cancel, and context.Background(), which is never done.
Token == "token"
Background == "background"

\* The balancer itself, as a value its methods return.
Balancer == "b"

\* The mutex's holders: the goroutine in Add, Remove or ConnectorNames, or
\* the Connect call inside randomConnector.
Mutator == "m"
Free == "free"

\* driver.Connector values.  NilConnector is the nil interface value
\* (b.Add("bar", nil)); the others are implementations of the interface:
\* the tests' testConnector and errConnector, and one that may do either
\* and hands back a connection in both cases.
NilConnector == Nil
Connectors == {NilConnector, "testConnector", "errConnector", "flakyConnector"}

\* A driver.Connector whose Connect never returns.
BlockingConnector == "blockingConnector"

\* What c.Connect(ctx) may return for each implementation.
ConnectorConnect(c) ==
    CASE c = "testConnector"  -> {[conn |-> Nil, err |-> Nil]}
      [] c = "errConnector"   -> {[conn |-> Nil, err |-> "err"]}
      [] c = "flakyConnector" -> {[conn |-> "conn", err |-> Nil],
                                  [conn |-> "halfopen", err |-> "err2"]}
      [] c = BlockingConnector -> {}

VARIABLES
    connectors,       \* b.mu.connectors : name -> driver.Connector
    mu,               \* b.mu.Mutex : its holder, or Free
    members,          \* history: the names added and not removed since
    mpc,              \* the registry's caller: the method it is in
    marg,             \* ... and the arguments it passed
    names,            \* the slice ConnectorNames returned, until dropped
    result,           \* what Driver or OpenConnector returned, until dropped
    before,           \* history: the name the latest Add was given and the
                      \* registry's names before it, until the next call
    pc,               \* per Connect call: where it is
    ctx,              \* per call: the context Connect was given
    via,              \* history, per call: the method the caller entered by
    cancelled,        \* per call: ctx.Done() is closed
    elapsed,          \* per call: eb.GetElapsedTime()
    currentInterval,  \* per call: eb.currentInterval
    timer,            \* per call: ticks left on Retry's timer
    chosen,           \* per call: the operation's c, from randomConnector
    conn,             \* per call: Connect's conn variable
    err,              \* per call: Retry's err variable
    ret,              \* per call: what Connect returned
    how,              \* per call: the return statement Connect left by
    invocations,      \* history, per call: connector Connects invoked
    last,             \* history, per call: what the latest attempt's
                      \* c.Connect(ctx) returned
    ctxAtEntry,       \* history, per call: ctx was done at Connect's entry
    firedInWait,      \* history, per call: ctx fired during a backoff wait
    invokedAfterFire  \* history, per call: ... and a connector was invoked
                      \* after that

vars == <<connectors, mu, members, mpc, marg, names, result, before, pc, ctx,
          via, cancelled, elapsed, currentInterval, timer, chosen, conn, err,
          ret, how, invocations, last, ctxAtEntry, firedInWait, invokedAfterFire>>

regVars == <<connectors, members>>
mutVars == <<mpc, marg, names, result, before>>
callVars == <<pc, ctx, via, elapsed, currentInterval, timer, chosen, conn, err, ret,
              how, invocations, last, ctxAtEntry, firedInWait, invokedAfterFire>>

NoArg == [name |-> Nil, c |-> Nil]
NoRet == [conn |-> Nil, err |-> Nil]
NoResult == << >>
NoAdd == [name |-> Nil, names |-> {}, removed |-> FALSE]

\* ------------------------------------------------------------ NewBalancer
InitRest ==
    /\ mu = Free
    /\ mpc = "idle"
    /\ marg = NoArg
    /\ names = << >>
    /\ result = NoResult
    /\ before = NoAdd
    /\ pc = [k \in Calls |-> "idle"]
    /\ ctx = [k \in Calls |-> Token]
    /\ via = [k \in Calls |-> "none"]
    /\ cancelled = [k \in Calls |-> FALSE]
    /\ elapsed = [k \in Calls |-> 0]
    /\ currentInterval = [k \in Calls |-> 0]
    /\ timer = [k \in Calls |-> 0]
    /\ chosen = [k \in Calls |-> Nil]
    /\ conn = [k \in Calls |-> Nil]
    /\ err = [k \in Calls |-> Nil]
    /\ ret = [k \in Calls |-> NoRet]
    /\ how = [k \in Calls |-> "none"]
    /\ invocations = [k \in Calls |-> 0]
    /\ last = [k \in Calls |-> NoRet]
    /\ ctxAtEntry = [k \in Calls |-> FALSE]
    /\ firedInWait = [k \in Calls |-> FALSE]
    /\ invokedAfterFire = [k \in Calls |-> FALSE]

Init ==
    /\ connectors = << >>
    /\ members = {}
    /\ InitRest

\* ------------------------------------------------------------- map helpers
\* An assignment that leaves an entry that is already there as it is.
MapSet_KeepsOld(m, name, c) ==
    [n \in (DOMAIN m) \cup {name} |-> IF n \in DOMAIN m THEN m[n] ELSE c]

\* m[name] = c
MapSet(m, name, c) ==
    [n \in (DOMAIN m) \cup {name} |-> IF n = name THEN c ELSE m[n]]

\* A delete that leaves the map as it is.
MapDelete_Keeps(m, name) == m

\* A delete that takes a name that is there together with every other.
MapDelete_Clears(m, name) ==
    IF name \in DOMAIN m THEN << >> ELSE m

\* delete(m, name)
MapDelete(m, name) ==
    [n \in (DOMAIN m) \ {name} |-> m[n]]

\* The slices a range over keys S may append up: every order of S.
RangeOrders(S) ==
    {s \in UNION {[1..n -> S] : n \in 0..Cardinality(S)} :
        /\ Len(s) = Cardinality(S)
        /\ \A i, j \in 1..Len(s) : i # j => s[i] # s[j]}

SeqToSet(s) == {s[i] : i \in 1..Len(s)}

\* ------------------------------------------------- Add / Remove / Names
\* One goroutine calls the registry's methods, one after the other; its
\* calls are concurrent with the Connect calls.

\* Add(name, c): b.mu.Lock()
AddLock(name, c) ==
    /\ mpc = "idle"
    /\ mu = Free
    /\ mu' = Mutator
    /\ mpc' = "Add"
    /\ marg' = [name |-> name, c |-> c]
    /\ before' = NoAdd
    /\ UNCHANGED <<regVars, names, result, callVars, cancelled>>

\* b.mu.connectors[name] = c, and the deferred Unlock
Add ==
    /\ mpc = "Add"
    /\ connectors' = MapSet(connectors, marg.name, marg.c)
    /\ members' = members \cup {marg.name}
    /\ before' = [name |-> marg.name, names |-> DOMAIN connectors,
                  removed |-> FALSE]
    /\ mu' = Free
    /\ mpc' = "idle"
    /\ marg' = NoArg
    /\ UNCHANGED <<names, result, callVars, cancelled>>

\* Remove(name): b.mu.Lock()
RemoveLock(name) ==
    /\ mpc = "idle"
    /\ mu = Free
    /\ mu' = Mutator
    /\ mpc' = "Remove"
    /\ marg' = [name |-> name, c |-> Nil]
    /\ UNCHANGED <<regVars, names, result, before, callVars, cancelled>>

\* delete(b.mu.connectors, name), and the deferred Unlock
Remove ==
    /\ mpc = "Remove"
    /\ connectors' = MapDelete(connectors, marg.name)
    /\ members' = members \ {marg.name}
    /\ before' = IF before.name = marg.name /\ ~before.removed
                 THEN [before EXCEPT !.removed = TRUE]
                 ELSE NoAdd
    /\ mu' = Free
    /\ mpc' = "idle"
    /\ marg' = NoArg
    /\ UNCHANGED <<names, result, callVars, cancelled>>

\* ConnectorNames(): b.mu.Lock()
ConnectorNamesLock ==
    /\ mpc = "idle"
    /\ mu = Free
    /\ mu' = Mutator
    /\ mpc' = "ConnectorNames"
    /\ before' = NoAdd
    /\ UNCHANGED <<regVars, marg, names, result, callVars, cancelled>>

\* for name := range b.mu.connectors { names = append(names, name) },
\* return names, and the deferred Unlock
ConnectorNames ==
    /\ mpc = "ConnectorNames"
    /\ \E s \in RangeOrders(DOMAIN connectors) : names' = s
    /\ mu' = Free
    /\ mpc' = "returned"
    /\ UNCHANGED <<regVars, marg, result, before, callVars, cancelled>>

\* The caller of ConnectorNames lets go of the slice it got.
DropNames ==
    /\ mpc = "returned"
    /\ names' = << >>
    /\ mpc' = "idle"
    /\ UNCHANGED <<regVars, mu, marg, result, before, callVars, cancelled>>

\* Driver(): return b.  It takes no lock.
Driver ==
    /\ mpc = "idle"
    /\ mpc' = "Driver"
    /\ result' = <<Balancer>>
    /\ before' = NoAdd
    /\ UNCHANGED <<regVars, mu, marg, names, callVars, cancelled>>

\* OpenConnector(name): return b, nil.  It takes no lock.
OpenConnector(name) ==
    /\ mpc = "idle"
    /\ mpc' = "OpenConnector"
    /\ marg' = [name |-> name, c |-> Nil]
    /\ result' = <<Balancer, Nil>>
    /\ before' = NoAdd
    /\ UNCHANGED <<regVars, mu, names, callVars, cancelled>>

\* The caller of Driver or OpenConnector lets go of what it got.
DropResult ==
    /\ mpc \in {"Driver", "OpenConnector"}
    /\ mpc' = "idle"
    /\ marg' = NoArg
    /\ result' = NoResult
    /\ UNCHANGED <<regVars, mu, names, before, callVars, cancelled>>

\* ------------------------------------------------------------- the context
\* The caller cancels the context it passed (or is about to pass).
Cancel(k) ==
    /\ ~cancelled[k]
    /\ ctx[k] # Background
    /\ pc[k] \notin {"done", "panicked"}
    /\ cancelled' = [cancelled EXCEPT ![k] = TRUE]
    /\ firedInWait' = [firedInWait EXCEPT ![k] = (pc[k] = "wait")]
    /\ UNCHANGED <<regVars, mu, mutVars, pc, ctx, via, elapsed, currentInterval,
                   timer, chosen, conn, err, ret, how, invocations, last,
                   ctxAtEntry, invokedAfterFire>>

\* ------------------------------------------------- the exponential backoff
Min(a, b) == IF a < b THEN a ELSE b
Max(a, b) == IF a > b THEN a ELSE b

\* getRandomValueFromInterval with RandomizationFactor 0.5: any value of
\* [interval - interval/2, interval + interval/2].
RandomValueFromInterval(interval) ==
    (interval - interval \div 2) .. (interval + interval \div 2)

\* incrementCurrentInterval with Multiplier 1.5, capped at MaxInterval.
IncrementCurrentInterval(interval) ==
    IF 3 * interval >= 2 * MaxInterval
    THEN MaxInterval
    ELSE (3 * interval) \div 2

\* ExponentialBackOff.NextBackOff: Stop once the elapsed time is over
\* MaxElapsedTime, else a randomized interval; the current interval grows.
ExponentialNextBackOff(el, interval) ==
    IF el > MaxElapsedTime
    THEN {[next |-> Stop, interval |-> interval]}
    ELSE {[next |-> d, interval |-> IncrementCurrentInterval(interval)] :
             d \in RandomValueFromInterval(interval)}

\* backOffContext.NextBackOff: Stop when the context is done, else the
\* wrapped backoff's answer.
NextBackOff(done, el, interval) ==
    IF done
    THEN {[next |-> Stop, interval |-> interval]}
    ELSE ExponentialNextBackOff(el, interval)

\* ---------------------------------------------------------------- Connect
\* A randomConnector that reports no error for an empty map.
randomConnector_NoError(m) ==
    IF DOMAIN m = {}
    THEN {[c |-> Nil, err |-> Nil]}
    ELSE {[c |-> m[n], err |-> Nil] : n \in DOMAIN m}

\* A randomConnector that may return a connector the map does not hold.
randomConnector_Stale(m) ==
    IF DOMAIN m = {}
    THEN {[c |-> Nil, err |-> ErrNoConnectors]}
    ELSE {[c |-> x, err |-> Nil] : x \in Connectors \ {NilConnector}}

\* What randomConnector returns for the map m: the first entry of a range
\* over it, or ErrNoConnectors.
randomConnector(m) ==
    IF DOMAIN m = {}
    THEN {[c |-> Nil, err |-> ErrNoConnectors]}
    ELSE {[c |-> m[n], err |-> Nil] : n \in DOMAIN m}

\* An operation that returns randomConnector's error as it is.
Permanent_Forgotten(e) == [perm |-> FALSE, err |-> e]

\* backoff.Permanent(err): the error wrapped in a *PermanentError.
Permanent(e) == [perm |-> TRUE, err |-> e]

\* The operation's "return err" after c.Connect(ctx): the connector's
\* error, unwrapped, or nil.
Plain(e) == [perm |-> FALSE, err |-> e]

\* A Retry that reports a timeout of its own when NextBackOff says Stop.
Retry_Timeout(o, done, el, interval) ==
    IF o.err = Nil
    THEN {[return |-> TRUE, err |-> Nil, by |-> "success",
           next |-> 0, interval |-> interval]}
    ELSE IF o.perm
    THEN {[return |-> TRUE, err |-> o.err, by |-> "permanent",
           next |-> 0, interval |-> interval]}
    ELSE {IF b.next = Stop
          THEN [return |-> TRUE, err |-> "backoff: timeout", by |-> "stop",
                next |-> 0, interval |-> b.interval]
          ELSE [return |-> FALSE, err |-> o.err, by |-> "none",
                next |-> b.next, interval |-> b.interval] :
             b \in NextBackOff(done, el, interval)}

\* One turn of Retry's loop after err = operation() gave o: return nil on
\* success, return permanent.Err for a *PermanentError, return err when
\* NextBackOff says Stop, else arm the timer with the next interval.
Retry(o, done, el, interval) ==
    IF o.err = Nil
    THEN {[return |-> TRUE, err |-> Nil, by |-> "success",
           next |-> 0, interval |-> interval]}
    ELSE IF o.perm
    THEN {[return |-> TRUE, err |-> o.err, by |-> "permanent",
           next |-> 0, interval |-> interval]}
    ELSE {IF b.next = Stop
          THEN [return |-> TRUE, err |-> o.err, by |-> "stop",
                next |-> 0, interval |-> b.interval]
          ELSE [return |-> FALSE, err |-> o.err, by |-> "none",
                next |-> b.next, interval |-> b.interval] :
             b \in NextBackOff(done, el, interval)}

\* A Connect that returns conn beside the error.
ConnectResult_Both(c, e) == [conn |-> c, err |-> e]

\* A Connect that returns nil, err on every path.
ConnectResult_NoConn(c, e) == [conn |-> Nil, err |-> e]

\* Connect's last lines: nil, err when Retry returned an error, else
\* conn, nil.
ConnectResult(c, e) ==
    IF e # Nil
    THEN [conn |-> Nil, err |-> e]
    ELSE [conn |-> c, err |-> Nil]

\* A Connect whose backoff and timer are the balancer's, not the call's:
\* a return ends them for every call.
Return_Shared(k, r, by) ==
    /\ pc' = [pc EXCEPT ![k] = "done"]
    /\ ret' = [ret EXCEPT ![k] = r]
    /\ how' = [how EXCEPT ![k] = by]
    /\ elapsed' = [j \in Calls |-> 0]
    /\ currentInterval' = [j \in Calls |-> 0]
    /\ timer' = [j \in Calls |-> 0]

\* Connect returns: the backoff and the timer go out of scope.
Return(k, r, by) ==
    /\ pc' = [pc EXCEPT ![k] = "done"]
    /\ ret' = [ret EXCEPT ![k] = r]
    /\ how' = [how EXCEPT ![k] = by]
    /\ elapsed' = [elapsed EXCEPT ![k] = 0]
    /\ currentInterval' = [currentInterval EXCEPT ![k] = 0]
    /\ timer' = [timer EXCEPT ![k] = 0]

\* An Open that hands Connect the context of some caller.
OpenCtx_Callers == Token

\* The context Open passes to Connect: context.Background().
OpenCtx == Background

\* Connect's first lines under the context c: NewExponentialBackOff,
\* WithContext, and Retry's b.Reset(); the operation is about to run for
\* the first time.
ConnectCtx(k, c, method) ==
    /\ pc[k] = "idle"
    /\ pc' = [pc EXCEPT ![k] = "lock"]
    /\ ctx' = [ctx EXCEPT ![k] = c]
    /\ via' = [via EXCEPT ![k] = method]
    /\ elapsed' = [elapsed EXCEPT ![k] = 0]
    /\ currentInterval' = [currentInterval EXCEPT ![k] = InitialInterval]
    /\ ctxAtEntry' = [ctxAtEntry EXCEPT ![k] = cancelled[k]]
    /\ UNCHANGED <<regVars, mu, mutVars, cancelled, timer, chosen, conn, err,
                   ret, how, invocations, last, firedInWait, invokedAfterFire>>

\* Connect(ctx) is called with the caller's context.
Connect(k) == ConnectCtx(k, Token, "Connect")

\* Open(name): return b.Connect(context.Background()).  The name is not
\* looked at; the call's context is Background, so no caller's cancel
\* reaches it.
Open(k, name) ==
    /\ ~cancelled[k]
    /\ ConnectCtx(k, OpenCtx, "Open")

\* randomConnector: b.mu.Lock()
RandomConnectorLock(k) ==
    /\ pc[k] = "lock"
    /\ mu = Free
    /\ mu' = k
    /\ pc' = [pc EXCEPT ![k] = "pick"]
    /\ UNCHANGED <<regVars, mutVars, ctx, via, cancelled, elapsed, currentInterval,
                   timer, chosen, conn, err, ret, how, invocations, last,
                   ctxAtEntry, firedInWait, invokedAfterFire>>

\* The operation returned o, having left c in Connect's conn: Retry
\* returns, and Connect with it, or Retry arms its timer.
AfterOperation(k, o, c) ==
    \E d \in Retry(o, cancelled[k], elapsed[k], currentInterval[k]) :
        /\ err' = [err EXCEPT ![k] = d.err]
        /\ IF d.return
           THEN Return(k, ConnectResult(c, d.err), d.by)
           ELSE /\ pc' = [pc EXCEPT ![k] = "wait"]
                /\ timer' = [timer EXCEPT ![k] = d.next]
                /\ currentInterval' = [currentInterval EXCEPT ![k] = d.interval]
                /\ UNCHANGED <<ret, how, elapsed>>

\* A randomConnector without the deferred Unlock: the operation goes on
\* to c.Connect(ctx) with the mutex held.
RandomConnector_KeepsLock(k) ==
    /\ pc[k] = "pick"
    /\ mu = k
    /\ mu' = mu
    /\ \E r \in randomConnector(connectors) :
          /\ chosen' = [chosen EXCEPT ![k] = r.c]
          /\ IF r.err # Nil
             THEN /\ AfterOperation(k, Permanent(r.err), conn[k])
                  /\ UNCHANGED <<invocations, invokedAfterFire>>
             ELSE IF r.c = NilConnector
             THEN /\ pc' = [pc EXCEPT ![k] = "panicked"]
                  /\ UNCHANGED <<err, ret, how, elapsed, currentInterval, timer,
                                 invocations, invokedAfterFire>>
             ELSE /\ pc' = [pc EXCEPT ![k] = "connecting"]
                  /\ invocations' = [invocations EXCEPT ![k] = @ + 1]
                  /\ invokedAfterFire' = [invokedAfterFire EXCEPT ![k] = firedInWait[k]]
                  /\ UNCHANGED <<err, ret, how, elapsed, currentInterval, timer>>
    /\ UNCHANGED <<regVars, mutVars, ctx, via, cancelled, conn, last, ctxAtEntry,
                   firedInWait>>

\* randomConnector's range and deferred Unlock, then the operation's use of
\* what it returned: return backoff.Permanent(err), or the call
\* c.Connect(ctx), which panics on a nil interface.
RandomConnector(k) ==
    /\ pc[k] = "pick"
    /\ mu = k
    /\ mu' = Free
    /\ \E r \in randomConnector(connectors) :
          /\ chosen' = [chosen EXCEPT ![k] = r.c]
          /\ IF r.err # Nil
             THEN /\ AfterOperation(k, Permanent(r.err), conn[k])
                  /\ UNCHANGED <<invocations, invokedAfterFire>>
             ELSE IF r.c = NilConnector
             THEN /\ pc' = [pc EXCEPT ![k] = "panicked"]
                  /\ UNCHANGED <<err, ret, how, elapsed, currentInterval, timer,
                                 invocations, invokedAfterFire>>
             ELSE /\ pc' = [pc EXCEPT ![k] = "connecting"]
                  /\ invocations' = [invocations EXCEPT ![k] = @ + 1]
                  /\ invokedAfterFire' = [invokedAfterFire EXCEPT ![k] = firedInWait[k]]
                  /\ UNCHANGED <<err, ret, how, elapsed, currentInterval, timer>>
    /\ UNCHANGED <<regVars, mutVars, ctx, via, cancelled, conn, last, ctxAtEntry,
                   firedInWait>>

\* c.Connect(ctx) returns: conn, err = c.Connect(ctx); return err
ConnectorReturn(k) ==
    /\ pc[k] = "connecting"
    /\ \E r \in ConnectorConnect(chosen[k]) :
          /\ last' = [last EXCEPT ![k] = r]
          /\ conn' = [conn EXCEPT ![k] = r.conn]
          /\ AfterOperation(k, Plain(r.err), r.conn)
    /\ chosen' = [chosen EXCEPT ![k] = Nil]
    /\ UNCHANGED <<regVars, mu, mutVars, ctx, via, cancelled, invocations, ctxAtEntry,
                   firedInWait, invokedAfterFire>>

\* Retry's select takes <-ctx.Done(): return err
WaitCtxDone(k) ==
    /\ pc[k] = "wait"
    /\ cancelled[k]
    /\ Return(k, ConnectResult(conn[k], err[k]), "ctxdone")
    /\ UNCHANGED <<regVars, mu, mutVars, ctx, via, cancelled, chosen, conn, err,
                   invocations, last, ctxAtEntry, firedInWait, invokedAfterFire>>

\* A retry that first drops the registry's failing entries.
WaitTimer_Evicts(k) ==
    /\ pc[k] = "wait"
    /\ timer[k] = 0
    /\ pc' = [pc EXCEPT ![k] = "lock"]
    /\ connectors' = [n \in {x \in DOMAIN connectors :
                                 connectors[x] # "errConnector"} |-> connectors[n]]
    /\ UNCHANGED <<members, mu, mutVars, ctx, via, cancelled, elapsed,
                   currentInterval, timer, chosen, conn, err, ret, how,
                   invocations, last, ctxAtEntry, firedInWait, invokedAfterFire>>

\* Retry's select takes <-t.C: the loop runs the operation again
WaitTimer(k) ==
    /\ pc[k] = "wait"
    /\ timer[k] = 0
    /\ pc' = [pc EXCEPT ![k] = "lock"]
    /\ UNCHANGED <<regVars, mu, mutVars, ctx, via, cancelled, elapsed,
                   currentInterval, timer, chosen, conn, err, ret, how,
                   invocations, last, ctxAtEntry, firedInWait, invokedAfterFire>>

\* ------------------------------------------------------------------- time
Running(k) == pc[k] \in {"lock", "pick", "connecting", "wait"}

\* One tick passes for every running call.
Tick ==
    /\ \E k \in Calls : Running(k) /\ (elapsed[k] <= MaxElapsedTime \/ timer[k] > 0)
    /\ elapsed' = [k \in Calls |->
                     IF Running(k) THEN Min(elapsed[k] + 1, MaxElapsedTime + 1)
                     ELSE elapsed[k]]
    /\ timer' = [k \in Calls |-> Max(timer[k] - 1, 0)]
    /\ UNCHANGED <<regVars, mu, mutVars, ctx, via, cancelled, pc, currentInterval,
                   chosen, conn, err, ret, how, invocations, last, ctxAtEntry,
                   firedInWait, invokedAfterFire>>

\* ------------------------------------------------------------------- spec
Next ==
    \/ \E name \in Names, c \in Connectors : AddLock(name, c)
    \/ Add
    \/ \E name \in Names : RemoveLock(name)
    \/ Remove
    \/ ConnectorNamesLock
    \/ ConnectorNames
    \/ DropNames
    \/ Driver
    \/ \E name \in OpenNames : OpenConnector(name)
    \/ DropResult
    \/ \E k \in Callers : Cancel(k)
    \/ \E k \in Callers : Connect(k)
    \/ \E k \in Callers, name \in OpenNames : Open(k, name)
    \/ \E k \in Callers : RandomConnectorLock(k)
    \/ \E k \in Callers : RandomConnector(k)
    \/ \E k \in Callers : ConnectorReturn(k)
    \/ \E k \in Callers : WaitCtxDone(k)
    \/ \E k \in Callers : WaitTimer(k)
    \/ Tick

Spec == Init /\ [][Next]_vars

\* The registry as some Adds left it, with no Add or Remove during the
\* Connect calls.
Registries == UNION {[S -> Connectors] : S \in SUBSET Names}

InitStatic ==
    /\ connectors \in Registries
    /\ members = DOMAIN connectors
    /\ InitRest

NextStatic ==
    \/ \E k \in Calls : Cancel(k)
    \/ \E k \in Calls : Connect(k)
    \/ \E k \in Calls : RandomConnectorLock(k)
    \/ \E k \in Calls : RandomConnector(k)
    \/ \E k \in Calls : ConnectorReturn(k)
    \/ \E k \in Calls : WaitCtxDone(k)
    \/ \E k \in Calls : WaitTimer(k)
    \/ Tick

SpecStatic == InitStatic /\ [][NextStatic]_vars

\* Time passes; a goroutine that can run does: a connector's Connect
\* returns, a select with a ready case takes one, and sync.Mutex hands the
\* lock to a goroutine that keeps asking for it.
Fairness ==
    /\ WF_vars(Tick)
    /\ \A k \in Calls :
          /\ SF_vars(RandomConnectorLock(k))
          /\ WF_vars(RandomConnector(k))
          /\ WF_vars(ConnectorReturn(k))
          /\ WF_vars(WaitCtxDone(k) \/ WaitTimer(k))

\* ... and the registry holds one connector, errConnector.
InitSole ==
    /\ InitStatic
    /\ Cardinality(DOMAIN connectors) = 1
    /\ \A n \in DOMAIN connectors : connectors[n] = "errConnector"

SpecSole == InitSole /\ [][NextStatic]_vars /\ Fairness

\* Two Connect calls, concurrent with the goroutine that calls Add, Remove
\* and ConnectorNames, where every connector added is one whose Connect
\* never returns: a call that has invoked one stays in it for ever.
NextBlocked ==
    \/ \E name \in Names : AddLock(name, BlockingConnector)
    \/ Add
    \/ \E name \in Names : RemoveLock(name)
    \/ Remove
    \/ ConnectorNamesLock
    \/ ConnectorNames
    \/ DropNames
    \/ \E k \in Calls : Connect(k)
    \/ \E k \in Calls : RandomConnectorLock(k)
    \/ \E k \in Calls : RandomConnector(k)
    \/ Tick

\* A goroutine that holds the mutex runs on to its deferred Unlock, and
\* sync.Mutex hands the lock to a goroutine that keeps asking for it.
\* Nothing is assumed of a connector's Connect.
FairnessBlocked ==
    /\ WF_vars(Add)
    /\ WF_vars(Remove)
    /\ WF_vars(ConnectorNames)
    /\ \A k \in Calls :
          /\ SF_vars(RandomConnectorLock(k))
          /\ WF_vars(RandomConnector(k))

SpecBlocked == Init /\ [][NextBlocked]_vars /\ FairnessBlocked

TypeOK ==
    /\ DOMAIN connectors \subseteq Names
    /\ \A n \in DOMAIN connectors :
          connectors[n] \in Connectors \cup {BlockingConnector}
    /\ mu \in {Free, Mutator} \cup Calls
    /\ \A k \in Calls : elapsed[k] \in 0..(MaxElapsedTime + 1)

\* ----------------------------------------------------------------- claims
Done(k) == pc[k] = "done"

\* A step in which call k leaves state "from".
Leaves(k, from) == pc[k] = from /\ pc'[k] # from

\* Once Connect has returned, the call does nothing more: no attempt, no
\* timer, and the result stands.
StaysReturned(k) ==
    Done(k) =>
        /\ pc'[k] = "done"
        /\ ret'[k] = ret[k]
        /\ invocations'[k] = invocations[k]
        /\ timer'[k] = 0

\* C1: when the registry has no entry at the moment an attempt of Connect
\* selects, that step makes Connect return (nil, ErrNoConnectors) without
\* invoking a connector, whether or not the context is done; the failure is
\* permanent: no backoff wait and no further attempt follows it.
C1_EmptyRegistryIsPermanent ==
    [][\A k \in Calls :
          /\ (Leaves(k, "pick") /\ DOMAIN connectors = {}) =>
                /\ pc'[k] = "done"
                /\ ret'[k] = [conn |-> Nil, err |-> ErrNoConnectors]
                /\ invocations'[k] = invocations[k]
          /\ StaysReturned(k)]_vars

\* C1's case: a call whose context was already done found the registry
\* empty and returned ErrNoConnectors.
C1_Witness ==
    \E k \in Calls :
        /\ Done(k)
        /\ how[k] = "permanent"
        /\ ctxAtEntry[k]
        /\ ret[k].err = ErrNoConnectors
        /\ invocations[k] = 0

\* C2: a Connect call whose context was already done at entry, and that
\* found the registry non-empty, returns the cancellation error and has
\* invoked no connector.
C2_DoneContextInvokesNothing ==
    \A k \in Calls :
        (ctxAtEntry[k] /\ how[k] # "permanent") =>
            /\ invocations[k] = 0
            /\ Done(k) => ret[k] = [conn |-> Nil, err |-> Canceled]

\* C3: when the context fires while Connect is in a backoff wait, no
\* connector is invoked in that call afterwards and Connect returns the
\* cancellation's error.
C3_CancelInWaitReturnsCanceled ==
    \A k \in Calls :
        firedInWait[k] =>
            /\ ~invokedAfterFire[k]
            /\ Done(k) => ret[k] = [conn |-> Nil, err |-> Canceled]

\* C5: when Connect returns because the elapsed-time budget is exhausted
\* (NextBackOff said Stop and the context is not done), it returns exactly
\* the error of the latest attempt's c.Connect, with no connection.
C5_BudgetReturnsLatestError ==
    \A k \in Calls :
        (Done(k) /\ how[k] = "stop" /\ ~cancelled[k]) =>
            /\ last[k].err # Nil
            /\ ret[k] = [conn |-> Nil, err |-> last[k].err]

\* C5's case: the budget ran out after several attempts, the latest of
\* which failed with err2.
C5_Witness ==
    \E k \in Calls :
        /\ Done(k)
        /\ how[k] = "stop"
        /\ ~cancelled[k]
        /\ invocations[k] >= 3
        /\ ret[k].err = "err2"

\* C7: when the registry has exactly one entry at the moment an attempt
\* selects, the attempt goes to that entry's connector and to no other.
C7_SingleEntryIsSelected ==
    [][\A k \in Calls :
          (Leaves(k, "pick") /\ Cardinality(DOMAIN connectors) = 1) =>
              /\ \A n \in DOMAIN connectors : chosen'[k] = connectors[n]
              /\ pc'[k] \in {"connecting", "panicked"}]_vars

\* C7's case: an attempt is in flight on testConnector, the only entry,
\* in a later attempt of the call.
C7_Witness ==
    \E k \in Calls :
        /\ pc[k] = "connecting"
        /\ invocations[k] >= 2
        /\ DOMAIN connectors = {"foo"}
        /\ connectors["foo"] = "testConnector"
        /\ chosen[k] = "testConnector"

\* C8: the step in which an attempt's c.Connect succeeds makes Connect
\* return that attempt's connection with a nil error; after it the call
\* arms no timer and invokes no connector.
C8_SuccessReturnsAtOnce ==
    [][\A k \in Calls :
          /\ (Leaves(k, "connecting") /\ last'[k].err = Nil) =>
                /\ pc'[k] = "done"
                /\ ret'[k] = [conn |-> last'[k].conn, err |-> Nil]
                /\ timer'[k] = 0
          /\ StaysReturned(k)]_vars

\* C8's case: a later attempt succeeded with a connection and Connect
\* returned it.
C8_Witness ==
    \E k \in Calls :
        /\ Done(k)
        /\ how[k] = "success"
        /\ invocations[k] >= 2
        /\ ret[k] = [conn |-> "conn", err |-> Nil]

\* C9 as stated: whatever Connect returns is either an error with no
\* connection or a non-nil connection with no error.
C9_ErrorXorConnection ==
    \A k \in Calls :
        Done(k) =>
            \/ ret[k].err # Nil /\ ret[k].conn = Nil
            \/ ret[k].err = Nil /\ ret[k].conn # Nil

\* C9 amended: whatever Connect returns is either an error with no
\* connection (also when the failing connector handed back a connection),
\* or a nil error with exactly what the successful attempt's c.Connect
\* returned as its connection.
C9_ErrorOrAttemptsConnection ==
    \A k \in Calls :
        Done(k) =>
            \/ ret[k].err # Nil /\ ret[k].conn = Nil
            \/ /\ ret[k].err = Nil
               /\ last[k].err = Nil
               /\ ret[k].conn = last[k].conn

\* C9's case: the latest attempt handed back a connection together with its
\* error, and Connect returned the error alone.
C9_Witness ==
    \E k \in Calls :
        /\ Done(k)
        /\ last[k] = [conn |-> "halfopen", err |-> "err2"]
        /\ ret[k] = [conn |-> Nil, err |-> "err2"]

\* C10: at every instant the registry's names are the names added minus
\* those removed since; what ConnectorNames returns is that set, each name
\* once; Remove of an absent name changes nothing.
C10_NamesAreAddedMinusRemoved ==
    /\ [](DOMAIN connectors = members)
    /\ [](mpc = "returned" =>
            /\ SeqToSet(names) = members
            /\ Len(names) = Cardinality(members))
    /\ [][(mpc = "Remove" /\ mpc' = "idle" /\ marg.name \notin DOMAIN connectors) =>
            (connectors' = connectors /\ members' = members)]_vars

\* C10's case: ConnectorNames returned both names while a Connect call has
\* an attempt in flight.
C10_Witness ==
    /\ mpc = "returned"
    /\ Len(names) = 2
    /\ \E k \in Calls : pc[k] = "connecting"

\* The registry holds exactly one connector, the always failing one.
SoleFailing ==
    /\ Cardinality(DOMAIN connectors) = 1
    /\ \A n \in DOMAIN connectors : connectors[n] = "errConnector"

\* With a sole, always failing connector every Connect call returns.
SoleFailingTerminates ==
    \A k \in Calls : (SoleFailing /\ pc[k] = "lock") ~> Done(k)

\* C4: with a sole, always failing connector every Connect call returns:
\* that connector's error when NextBackOff said Stop, the cancellation
\* error when the caller cancelled during a wait.
C4_SoleFailingEndsWithItsErrorOrCanceled ==
    /\ SoleFailingTerminates
    /\ [](\A k \in Calls :
            (SoleFailing /\ Done(k)) =>
                /\ ret[k].conn = Nil
                /\ ret[k].err = IF how[k] = "ctxdone" THEN Canceled ELSE "err")

\* The registry holds an always succeeding and an always failing connector.
Mixed ==
    /\ DOMAIN connectors = Names
    /\ {connectors[n] : n \in Names} = {"testConnector", "errConnector"}

\* C6: with an always succeeding and an always failing connector in an
\* unchanged registry and a context that is never done, Connect returns a
\* nil error.
C6_MixedRegistrySucceeds ==
    \A k \in Calls :
        (Mixed /\ Done(k) /\ ~cancelled[k]) => ret[k].err = Nil

\* The step in which the registry's goroutine leaves the method it is in.
Completes(method) == mpc = method /\ mpc' # method

\* The connectors the registry holds.
Registered == {connectors[n] : n \in DOMAIN connectors}

\* C11 as stated: a Remove(name) that follows an Add(name, f) immediately
\* leaves the registry's names as they were before that Add, whatever the
\* registry held.
C11_AddRemoveRestoresNames ==
    [][(Completes("Remove") /\ before.name = marg.name /\ ~before.removed) =>
          DOMAIN connectors' = before.names]_vars

\* C11 amended: a Remove(name) that follows an Add(name, f) immediately
\* leaves the registry's names as they were before that Add without name:
\* as they were when name was not registered before the Add, and one name
\* fewer when it was; every other entry is as it was.
C11_AddRemoveLeavesNamesWithoutName ==
    [][(Completes("Remove") /\ before.name = marg.name /\ ~before.removed) =>
          /\ DOMAIN connectors' = before.names \ {marg.name}
          /\ \A n \in DOMAIN connectors' : connectors'[n] = connectors[n]]_vars

\* C11's case: Add then Remove of a name that was registered before the
\* Add have both returned, and the name is gone.
C11_Witness ==
    /\ before.removed
    /\ mpc = "idle"
    /\ before.name \in before.names
    /\ before.names = Names
    /\ DOMAIN connectors = Names \ {before.name}

\* C12: an Add of a registered name leaves the set of names, and so the
\* length of what ConnectorNames returns, as it was, and puts the new
\* connector in the old one's place, every other entry unchanged; every
\* selection returns a connector the registry holds at that moment, so a
\* replaced one is selected no more.
C12_ReAddReplaces ==
    [][/\ (Completes("Add") /\ marg.name \in DOMAIN connectors) =>
             /\ DOMAIN connectors' = DOMAIN connectors
             /\ connectors'[marg.name] = marg.c
             /\ \A n \in DOMAIN connectors \ {marg.name} :
                   connectors'[n] = connectors[n]
       /\ Completes("ConnectorNames") =>
             Len(names') = Cardinality(DOMAIN connectors)
       /\ \A k \in Calls :
             (Leaves(k, "pick") /\ pc'[k] = "connecting") =>
                 chosen'[k] \in Registered]_vars

\* C12's case: after a re-Add of the only name, which put testConnector
\* where a failing connector was, a call that had failed before has an
\* attempt in flight on testConnector.
C12_Witness ==
    /\ before.name \in before.names
    /\ ~before.removed
    /\ DOMAIN connectors = {before.name}
    /\ connectors[before.name] = "testConnector"
    /\ \E k \in Calls :
          /\ pc[k] = "connecting"
          /\ chosen[k] = "testConnector"
          /\ last[k].err = "err"

\* C13: an attempt that selects a nil entry fails like any failing
\* connector: Connect goes into a backoff wait or returns an error; it does
\* not crash.
C13_NilEntryFailsOrdinarily ==
    [][\A k \in Calls :
          (Leaves(k, "pick") /\ chosen'[k] = NilConnector
                             /\ DOMAIN connectors # {}) =>
              /\ pc'[k] \in {"wait", "done"}
              /\ pc'[k] = "done" => ret'[k].err # Nil]_vars

\* C14: Open, whatever its name argument, is Connect under a context that
\* is never done: its step is Connect's first step, the call's context is
\* never cancelled and the call never returns through <-ctx.Done();
\* Driver returns the balancer, OpenConnector the balancer and a nil
\* error, for every name; none of them changes the registry.
C14_OpenIsConnectWithBackground ==
    [][/\ \A k \in Calls :
             /\ (pc[k] = "idle" /\ via'[k] = "Open") =>
                   /\ \A name \in OpenNames : Open(k, name)
                   /\ ctx'[k] = Background
                   /\ pc'[k] = "lock"
                   /\ elapsed'[k] = 0
                   /\ currentInterval'[k] = InitialInterval
                   /\ regVars' = regVars
             /\ via[k] = "Open" =>
                   /\ ~cancelled'[k]
                   /\ how'[k] # "ctxdone"
       /\ (mpc = "idle" /\ mpc' = "Driver") =>
             (result' = <<Balancer>> /\ regVars' = regVars /\ mu' = mu)
       /\ (mpc = "idle" /\ mpc' = "OpenConnector") =>
             (result' = <<Balancer, Nil>> /\ regVars' = regVars /\ mu' = mu)]_vars

\* C14's case: a call that came in by Open has returned after its budget
\* ran out over several attempts, and OpenConnector has returned.
C14_Witness ==
    /\ mpc = "OpenConnector"
    /\ marg.name = "bar"
    /\ \E k \in Calls :
          /\ via[k] = "Open"
          /\ Done(k)
          /\ how[k] = "stop"
          /\ invocations[k] >= 2

\* C15: the mutex is held by the registry's goroutine exactly while it is
\* in Add, Remove or ConnectorNames, and by a Connect call exactly during
\* its selection step; no connector's Connect is in progress in a call that
\* holds it.
C15_NoConnectUnderLock ==
    /\ mu = Mutator <=> mpc \in {"Add", "Remove", "ConnectorNames"}
    /\ \A k \in Calls :
          /\ mu = k <=> pc[k] = "pick"
          /\ pc[k] = "connecting" => mu # k

\* C15's case: a connector's Connect is in progress while the registry's
\* goroutine holds the mutex in Remove.
C15_Witness ==
    /\ mu = Mutator
    /\ mpc = "Remove"
    /\ \E k \in Calls : pc[k] = "connecting" /\ invocations[k] >= 2

\* C16: an attempt's selection returns a connector the registry holds at
\* that moment; an Add or Remove leaves every call, and the attempt it has
\* in flight, as it is; and an attempt in flight ends with what its own
\* connector returns, registered still or not.
C16_SelectionSeesRegistryOfItsMoment ==
    [][\A k \in Calls :
          /\ (Leaves(k, "pick") /\ DOMAIN connectors # {}) =>
                chosen'[k] \in Registered
          /\ (Completes("Add") \/ Completes("Remove")) =>
                (pc'[k] = pc[k] /\ chosen'[k] = chosen[k] /\ err'[k] = err[k]
                                /\ timer'[k] = timer[k])
          /\ Leaves(k, "connecting") =>
                last'[k] \in ConnectorConnect(chosen[k])]_vars

\* C16's case: a later attempt of a call is in flight on a connector that
\* has been removed since its selection, the registry holding another.
C16_Witness ==
    \E k \in Calls :
        /\ pc[k] = "connecting"
        /\ invocations[k] >= 2
        /\ DOMAIN connectors # {}
        /\ chosen[k] \notin Registered

\* C17: when a later attempt of a call finds the registry empty, that step
\* makes Connect return (nil, ErrNoConnectors) as a permanent failure, not
\* the earlier attempt's error, with no timer armed and no connector
\* invoked, whatever is left of the budget.
C17_EmptiedRegistryEndsCall ==
    [][\A k \in Calls :
          (Leaves(k, "pick") /\ DOMAIN connectors = {} /\ invocations[k] >= 1) =>
              /\ pc'[k] = "done"
              /\ ret'[k] = [conn |-> Nil, err |-> ErrNoConnectors]
              /\ how'[k] = "permanent"
              /\ timer'[k] = 0
              /\ invocations'[k] = invocations[k]]_vars

\* C17's case: a call whose earlier attempt failed with a connector's
\* error returned ErrNoConnectors, its context not done.
C17_Witness ==
    \E k \in Calls :
        /\ Done(k)
        /\ how[k] = "permanent"
        /\ invocations[k] >= 1
        /\ last[k].err = "err"
        /\ ~cancelled[k]
        /\ ret[k] = [conn |-> Nil, err |-> ErrNoConnectors]

\* A call is inside a connector's Connect that never returns.
Blocked(k) == pc[k] = "connecting" /\ chosen[k] = BlockingConnector

\* C18: while a call is blocked for ever inside a connector's Connect the
\* mutex is not that call's, whoever holds the mutex releases it, the
\* registry's goroutine leaves Add, Remove and ConnectorNames, and another
\* call that asks for the mutex gets through its selection.
C18_BlockedConnectLeavesRegistryLive ==
    \A j \in Calls :
        /\ [](Blocked(j) => mu # j)
        /\ (Blocked(j) /\ mu # Free) ~> (mu = Free)
        /\ (Blocked(j) /\ mpc \in {"Add", "Remove", "ConnectorNames"})
               ~> (mpc \in {"idle", "returned"})
        /\ \A k \in Calls \ {j} :
               (Blocked(j) /\ pc[k] = "lock") ~> (pc[k] \in {"connecting", "done"})

\* C18's case: one call is blocked in a connector's Connect, the other has
\* selected after it and is blocked too, and ConnectorNames has returned.
C18_Witness ==
    /\ Blocked("c1")
    /\ Blocked("c2")
    /\ elapsed["c1"] > elapsed["c2"]
    /\ mpc = "returned"
    /\ Len(names) = 2

\* C19: the registry changes only in the step in which Add or Remove
\* completes; no step of a Connect or Open call (selection, a connector's
\* success or failure, a backoff wait, a return) and no cancellation
\* changes a name or a connector of it.
C19_OnlyAddAndRemoveChangeRegistry ==
    [][/\ (connectors' # connectors) =>
             (Completes("Add") \/ Completes("Remove"))
       /\ \A k \in Calls :
             (pc'[k] # pc[k] \/ cancelled'[k] # cancelled[k]) =>
                 connectors' = connectors]_vars

\* C19's case: a call that came in by Open is in a backoff wait after
\* errConnector failed twice, and errConnector is still registered.
C19_Witness ==
    \E k \in Calls :
        /\ via[k] = "Open"
        /\ pc[k] = "wait"
        /\ invocations[k] >= 2
        /\ last[k].err = "err"
        /\ "errConnector" \in Registered

\* What a call's retry is made of: its backoff, timer, context, attempts
\* and result.
RetryState(k) ==
    <<pc[k], cancelled[k], currentInterval[k], timer[k], elapsed[k], chosen[k],
      conn[k], err[k], ret[k], how[k], invocations[k], last[k]>>

\* C20: a step of one Connect call (an attempt, its failure, a backoff
\* decision, the end of its budget, its return) or the cancellation of its
\* context changes nothing of another call's retry state.
C20_CallsKeepIndependentRetryState ==
    [][\A k \in Calls : \A j \in Calls \ {k} :
          (pc'[k] # pc[k] \/ cancelled'[k] # cancelled[k]) =>
              RetryState(j)' = RetryState(j)]_vars

\* C20's case: one call has returned because its budget ran out while the
\* other, its context not done, is in the backoff wait after its first
\* attempt.
C20_Witness ==
    \E k \in Calls : \E j \in Calls \ {k} :
        /\ Done(k)
        /\ how[k] = "stop"
        /\ pc[j] = "wait"
        /\ timer[j] > 0
        /\ invocations[j] = 1
        /\ ~cancelled[j]

====
